---- MODULE Spec2Model ----
(***************************************************************************)
(* Model of mahotas/_convolve.cpp: the convolution, rank filter, template  *)
(* match and Haar / Daubechies wavelet kernels and their Python entry      *)
(* points.                                                                 *)
(*                                                                         *)
(* Element values (float or double in the code) are fixed-point numbers:   *)
(* the integer v stands for v / Scale.  Sums and differences are exact, a  *)
(* product is rounded to the grid (Mul), as a floating-point product is    *)
(* rounded to its mantissa.  Small integers and their halves are exact.    *)
(***************************************************************************)
EXTENDS Integers, Sequences, FiniteSets, TLC

VARIABLES
    array,      \* the primary array handed to the entry points (mutated in place by the wavelets)
    output,     \* the output array of the last filter call (None before any)
    ret,        \* what the last call returned: "none", "ok" (an array), "error" (NULL)
    calls,      \* the calls made so far, oldest first
    array0,     \* the primary array as constructed
    prev,       \* the primary array before the last call
    iter        \* an array iterator under test: its view, its state, the increments made

vars == << array, output, ret, calls, array0, prev, iter >>

-----------------------------------------------------------------------------
(* Bounds of the model *)

MaxCells == 4        \* small arrays hold at most this many elements
MaxStridedCells == 3 \* arrays with element stride 2 hold at most this many elements
MaxLong == 22        \* long single-row arrays have MaxLong-1 or MaxLong columns
Tol == 100           \* rounding tolerance of a round trip, in units of 1/Scale
MaxAxes == 3         \* the views walked by an iterator have at most this many axes
MaxAxisLen == 3      \* and at most this many elements along an axis

-----------------------------------------------------------------------------
(* Fixed-point numbers *)

Scale == 1000 * 10000

Num(n) == n * Scale

Abs(x) == IF x < 0 THEN -x ELSE x

\* floor(c * v / Scale) for c, v >= 0, computed without leaving 32 bits
MulMag(c, v) ==
    LET c1 == c \div 10000
        c0 == c % 10000
        v1 == v \div 10000
        v0 == v % 10000
        m  == c1 * v0 + c0 * v1
    IN  c1 * v1 * 10 + (m \div 1000) + (((m % 1000) * 10000 + c0 * v0) \div Scale)

\* the product of two numbers, rounded towards zero
Mul(a, b) ==
    IF a = 0 \/ b = 0 THEN 0
    ELSE IF (a < 0) = (b < 0) THEN MulMag(Abs(a), Abs(b))
    ELSE -MulMag(Abs(a), Abs(b))

\* x / 2 in the element type (a real division)
Half(x) == IF x < 0 THEN -((-x) \div 2) ELSE x \div 2

\* C++ integer division by two: truncates towards zero
IntDiv2(x) == IF x < 0 THEN -((-x) \div 2) ELSE x \div 2

-----------------------------------------------------------------------------
(* Arrays: dtype, shape, element stride of the last axis, and the memory   *)
(* the view covers.  Element (y, x) of a 2-D view lives at cell            *)
(* (y * N1 + x) * step; with step > 1 the cells in between belong to the   *)
(* array the view was sliced from.                                         *)

None == [nd |-> 0]

IsArray(a) == a.nd > 0

RECURSIVE Product(_)
Product(s) == IF s = << >> THEN 1 ELSE Head(s) * Product(Tail(s))

size(a) == Product(a.dims)

dim(a, i) == a.dims[i + 1]

stride(a) == a.step

\* PyArray_ISCARRAY: C-contiguous
ISCARRAY(a) == a.step = 1

\* cell c (0-based) of a memory block
At(mem, c) == mem[c + 1]

\* the elements of a view, in row-major order
Elements(a) == [i \in 1..size(a) |-> a.data[(i - 1) * a.step + 1]]

MkArray(dtype, dims, step, data) ==
    [nd |-> Len(dims), dtype |-> dtype, dims |-> dims, step |-> step, data |-> data]

-----------------------------------------------------------------------------
(* Wavelets *)

\* _access clamping to the last element instead of returning zero past the end
_access_clamped(data, base, N, p, step) ==
    IF p < 0 THEN 0
    ELSE IF p >= N THEN (IF N > 0 THEN data[base + (N - 1) * step + 1] ELSE 0)
    ELSE data[base + p * step + 1]

_access(data, base, N, p, step) ==
    IF p < 0 THEN 0
    ELSE IF p >= N THEN 0
    ELSE At(data, base + p * step)

_is_even(x) == x % 2 = 0

\* the copy-back loop shared by the four kernels: data[step*x] = buffer[x]
CopyBack(mem, base, N1, step, buffer) ==
    [c \in 1..Len(mem) |->
        IF /\ c - 1 >= base
           /\ c - 1 < base + N1 * step
           /\ (c - 1 - base) % step = 0
        THEN buffer[((c - 1 - base) \div step) + 1]
        ELSE mem[c]]

\* haarBuffer with the difference taken the other way round (di - di1)
haarBuffer_swapped(mem, base, N1, step, buffer) ==
    [i \in 1..N1 |->
        LET x == i - 1
            h == N1 \div 2
        IN  IF x < h
            THEN At(mem, base + 2 * x * step) + At(mem, base + (2 * x + 1) * step)
            ELSE IF x < 2 * h
            THEN At(mem, base + 2 * (x - h) * step) - At(mem, base + (2 * (x - h) + 1) * step)
            ELSE buffer[i]]

\* one row of haar: the buffer after the x loop
haarBuffer(mem, base, N1, step, buffer) ==
    [i \in 1..N1 |->
        LET x == i - 1
            h == N1 \div 2
        IN  IF x < h
            THEN At(mem, base + 2 * x * step) + At(mem, base + (2 * x + 1) * step)
            ELSE IF x < 2 * h
            THEN At(mem, base + (2 * (x - h) + 1) * step) - At(mem, base + 2 * (x - h) * step)
            ELSE buffer[i]]

RECURSIVE haarRows(_, _, _, _, _, _)
haarRows(mem, y, N0, N1, step, buffer) ==
    IF y = N0 THEN mem
    ELSE LET base == y * N1 * step
             buf  == haarBuffer(mem, base, N1, step, buffer)
         IN  haarRows(CopyBack(mem, base, N1, step, buf), y + 1, N0, N1, step, buf)

\* a scratch buffer that is not cleared when it is made
ZeroBuffer_stale(N1) == [i \in 1..N1 |-> Num(9)]

\* bufdata.resize(N1): N1 value-initialised elements
ZeroBuffer(N1) == [i \in 1..N1 |-> 0]

haar(a) ==
    [a EXCEPT !.data =
        haarRows(a.data, 0, dim(a, 0), dim(a, 1), stride(a), ZeroBuffer(dim(a, 1)))]

\* ihaarBuffer without the division by two
ihaarBuffer_unscaled(mem, base, N1, step, buffer) ==
    [i \in 1..N1 |->
        LET x    == (i - 1) \div 2
            high == base + ((step * N1) \div 2)
            h    == At(mem, high + x * step)
            l    == At(mem, base + x * step)
        IN  IF i - 1 >= 2 * (N1 \div 2) THEN buffer[i]
            ELSE IF (i - 1) % 2 = 0 THEN l - h
            ELSE l + h]

\* one row of ihaar: low = data, high = data + step*N1/2
ihaarBuffer(mem, base, N1, step, buffer) ==
    [i \in 1..N1 |->
        LET x    == (i - 1) \div 2
            high == base + ((step * N1) \div 2)
            h    == At(mem, high + x * step)
            l    == At(mem, base + x * step)
        IN  IF i - 1 >= 2 * (N1 \div 2) THEN buffer[i]
            ELSE IF (i - 1) % 2 = 0 THEN Half(l - h)
            ELSE Half(l + h)]

RECURSIVE ihaarRows(_, _, _, _, _, _)
ihaarRows(mem, y, N0, N1, step, buffer) ==
    IF y = N0 THEN mem
    ELSE LET base == y * N1 * step
             buf  == ihaarBuffer(mem, base, N1, step, buffer)
         IN  ihaarRows(CopyBack(mem, base, N1, step, buf), y + 1, N0, N1, step, buf)

ihaar(a) ==
    [a EXCEPT !.data =
        ihaarRows(a.data, 0, dim(a, 0), dim(a, 1), stride(a), ZeroBuffer(dim(a, 1)))]

\* the ci loop of wavelet: << l, h >> after taps ci..ncoeffs-1
RECURSIVE waveletTaps(_, _, _, _, _, _, _, _, _, _, _)
waveletTaps(mem, base, N1, step, coeffs, ncoeffs, x, ci, l, h, even) ==
    IF ci = ncoeffs THEN << l, h >>
    ELSE LET val == _access(mem, base, N1, 2 * x + ci, step)
             cl  == coeffs[ncoeffs - ci - 1 + 1]
             ch  == (IF even THEN -1 ELSE 1) * coeffs[ci + 1]
         IN  waveletTaps(mem, base, N1, step, coeffs, ncoeffs, x, ci + 1,
                         l + Mul(cl, val), h + Mul(ch, val), ~even)

\* the x loop of wavelet: the low and the high values of the row
RECURSIVE waveletHalves(_, _, _, _, _, _, _, _, _)
waveletHalves(mem, base, N1, step, coeffs, ncoeffs, x, low, high) ==
    IF ~(x < N1 \div 2) THEN << low, high >>
    ELSE LET lh == waveletTaps(mem, base, N1, step, coeffs, ncoeffs, x, 0, 0, 0, TRUE)
         IN  waveletHalves(mem, base, N1, step, coeffs, ncoeffs, x + 1,
                           Append(low, lh[1]), Append(high, lh[2]))

\* one row of wavelet: the buffer after the x loop (low = buffer, high = buffer + N1/2)
waveletBuffer(mem, base, N1, step, coeffs, ncoeffs, buffer) ==
    LET lh == waveletHalves(mem, base, N1, step, coeffs, ncoeffs, 0, << >>, << >>)
    IN  lh[1] \o lh[2] \o SubSeq(buffer, 2 * (N1 \div 2) + 1, N1)

RECURSIVE waveletRows(_, _, _, _, _, _, _, _)
waveletRows(mem, y, N0, N1, step, coeffs, ncoeffs, buffer) ==
    IF y = N0 THEN mem
    ELSE LET base == y * N1 * step
             buf  == waveletBuffer(mem, base, N1, step, coeffs, ncoeffs, buffer)
         IN  waveletRows(CopyBack(mem, base, N1, step, buf), y + 1, N0, N1, step,
                         coeffs, ncoeffs, buf)

wavelet(a, coeffs, ncoeffs) ==
    [a EXCEPT !.data =
        waveletRows(a.data, 0, dim(a, 0), dim(a, 1), stride(a), coeffs, ncoeffs,
                    ZeroBuffer(dim(a, 1)))]

\* the ci loop of iwavelet: << l, h >> after taps ci..ncoeffs-1
RECURSIVE iwaveletTaps(_, _, _, _, _, _, _, _, _, _)
iwaveletTaps(mem, base, N1, step, coeffs, ncoeffs, x, ci, l, h) ==
    IF ci = ncoeffs THEN << l, h >>
    ELSE LET xmap2 == x + ci - ncoeffs + 2
             xmap  == IntDiv2(xmap2)
             high  == base + ((step * N1) \div 2)
             cl    == coeffs[ci + 1]
             ch    == (IF _is_even(ci) THEN 1 ELSE -1) * coeffs[ncoeffs - ci - 1 + 1]
         IN  IF ~_is_even(xmap2)
             THEN iwaveletTaps(mem, base, N1, step, coeffs, ncoeffs, x, ci + 1,
                               l + Mul(cl, _access(mem, base, N1 \div 2, xmap, step)),
                               h + Mul(ch, _access(mem, high, N1 \div 2, xmap, step)))
             ELSE iwaveletTaps(mem, base, N1, step, coeffs, ncoeffs, x, ci + 1, l, h)

\* iwaveletBuffer without the averaging of the two paths
iwaveletBuffer_unscaled(mem, base, N1, step, coeffs, ncoeffs) ==
    [i \in 1..N1 |->
        LET lh == iwaveletTaps(mem, base, N1, step, coeffs, ncoeffs, i - 1, 0, 0, 0)
        IN  lh[1] + lh[2]]

iwaveletBuffer(mem, base, N1, step, coeffs, ncoeffs) ==
    [i \in 1..N1 |->
        LET lh == iwaveletTaps(mem, base, N1, step, coeffs, ncoeffs, i - 1, 0, 0, 0)
        IN  Half(lh[1] + lh[2])]

RECURSIVE iwaveletRows(_, _, _, _, _, _, _)
iwaveletRows(mem, y, N0, N1, step, coeffs, ncoeffs) ==
    IF y = N0 THEN mem
    ELSE LET base == y * N1 * step
             buf  == iwaveletBuffer(mem, base, N1, step, coeffs, ncoeffs)
         IN  iwaveletRows(CopyBack(mem, base, N1, step, buf), y + 1, N0, N1, step,
                          coeffs, ncoeffs)

iwavelet(a, coeffs, ncoeffs) ==
    [a EXCEPT !.data =
        iwaveletRows(a.data, 0, dim(a, 0), dim(a, 1), stride(a), coeffs, ncoeffs)]

-----------------------------------------------------------------------------
(* The Daubechies coefficient tables, in units of 1/Scale *)

D2 ==
    << 10000000, 10000000 >>
D4 ==
    << 6830127, 11830127, 3169873, -1830127 >>
D6 ==
    << 4704672, 11411169, 6503650, -1909344, -1208322, 498175 >>
D8 ==
    << 3258034, 10109457, 8922014, -395750, -2645072, 436163, 465036, -149870 >>
D10 ==
    << 2264190, 8539435, 10243269, 1957670, -3426567, -456011, 1097026, -88268,
       -177919, 47174 >>
D12 ==
    << 1577424, 6995038, 10622638, 4458313, -3199866, -1835181, 1378881, 389232,
       -446638, 7833, 67561, -15235 >>
D14 ==
    << 1100994, 5607913, 10311485, 6643725, -2035138, -3168350, 1008467, 1140034,
       -537824, -234399, 177498, 6075, -25479, 5002 >>
D16 ==
    << 769556, 4424672, 9554862, 8278165, -223857, -4016586, 6682, 1820764,
       -245639, -623502, 197722, 123688, -68877, -5540, 9552, -1661 >>
D18 ==
    << 538504, 3448343, 8553491, 9295457, 1883696, -4147518, -1369536, 2100683,
       434527, -956473, 3549, 316242, -66796, -60550, 26130, 3258, -3563, 556 >>
D20 ==
    << 377172, 2661222, 7455751, 9736281, 3976377, -3533362, -2771099, 1801274,
       1316030, -1009666, -416592, 469698, 51004, -151790, 19733, 28177, -9699,
       -1647, 1324, -188 >>

\* dcoeffs taking the code before the table for the first entry
dcoeffs_lenient(code) ==
    CASE code = -1 -> D2
      [] code = 0 -> D2
      [] code = 1 -> D4
      [] code = 2 -> D6
      [] code = 3 -> D8
      [] code = 4 -> D10
      [] code = 5 -> D12
      [] code = 6 -> D14
      [] code = 7 -> D16
      [] code = 8 -> D18
      [] code = 9 -> D20
      [] OTHER -> << >>

\* NULL (with the error set) for a code outside the table
dcoeffs(code) ==
    CASE code = 0 -> D2
      [] code = 1 -> D4
      [] code = 2 -> D6
      [] code = 3 -> D8
      [] code = 4 -> D10
      [] code = 5 -> D12
      [] code = 6 -> D14
      [] code = 7 -> D16
      [] code = 8 -> D18
      [] code = 9 -> D20
      [] OTHER -> << >>

-----------------------------------------------------------------------------
(* The array iterator and the filter iterator *)

\* position() of the array iterator after i increments: row-major, last axis fastest
position(i, dims) ==
    [d \in 1..Len(dims) |->
        (i \div Product(SubSeq(dims, d + 1, Len(dims)))) % dims[d]]

\* the flat (row-major) index of a coordinate
Flat(coord, dims) ==
    LET RECURSIVE go(_, _)
        go(d, acc) == IF d > Len(dims) THEN acc ELSE go(d + 1, acc * dims[d] + coord[d])
    IN  go(1, 0)

ElementAt(a, coord) == At(a.data, Flat(coord, a.dims) * a.step)

Reverse(s) == [i \in 1..Len(s) |-> s[Len(s) + 1 - i]]

\* steps_ of the iterator without the rewind of the faster axes (the strides reversed)
iterator_steps_plain(dims, strides) == Reverse(strides)

\* the constructor's loop: steps_[i] is the stride of axis nd-i-1 less what the walk of
\* the faster axes has already advanced (cummul).  strides are in elements (the byte
\* strides divided by sizeof(BaseType)).  cummul is unsigned in the code and wraps
\* modulo 2^32; the steps are the same residues, and they fit an int.
iterator_steps(dims, strides) ==
    LET nd == Len(dims)
        RECURSIVE go(_, _, _)
        go(i, cummul, steps) ==
            IF i = nd THEN steps
            ELSE LET step == strides[nd - i - 1 + 1] - cummul
                 IN  go(i + 1, cummul * dims[nd - i - 1 + 1] + step * dims[nd - i - 1 + 1],
                        Append(steps, step))
    IN  go(0, 0, << >>)

\* iterator_base(array): the iterator at the first element; data_ counts elements from
\* the array's data pointer, position_ and dimensions_ are kept reversed
iterator_base(dims, strides) ==
    [ data_       |-> 0,
      steps_      |-> iterator_steps(dims, strides),
      dimensions_ |-> Reverse(dims),
      position_   |-> [i \in 1..Len(dims) |-> 0] ]

\* operator++ from axis i on
RECURSIVE operator_inc_from(_, _)
operator_inc_from(it, i) ==
    IF i = Len(it.position_) THEN it
    ELSE LET moved == [it EXCEPT !.data_ = @ + it.steps_[i + 1],
                                 !.position_[i + 1] = @ + 1]
         IN  IF moved.position_[i + 1] # it.dimensions_[i + 1] THEN moved
             ELSE operator_inc_from([moved EXCEPT !.position_[i + 1] = 0], i + 1)

operator_inc(it) == operator_inc_from(it, 0)

\* position() of an iterator: position_ reversed back
iterator_position(it) == Reverse(it.position_)

Modes == {"nearest", "wrap", "mirror", "constant", "reflect"}

\* an out-of-range coordinate c of an axis of n elements, brought back into range
fix_offset(mode, c, n) ==
    CASE mode = "wrap" -> c % n
      [] mode = "mirror" ->
            IF n = 1 THEN 0
            ELSE LET m == c % (2 * n - 2) IN IF m >= n THEN 2 * n - 2 - m ELSE m
      [] mode = "reflect" ->
            LET m == c % (2 * n) IN IF m >= n THEN 2 * n - 1 - m ELSE m
      [] OTHER -> c

\* filter_iterator::size
fsize(f) == size(f)

\* the array coordinate tap j reaches from position pos
TapCoord(f, centered, pos, j) ==
    LET off == position(j, f.dims)
    IN  [d \in 1..Len(pos) |->
            pos[d] + off[d] - (IF centered THEN f.dims[d] \div 2 ELSE 0)]

Inside(a, coord) == \A d \in 1..Len(coord) : coord[d] >= 0 /\ coord[d] < a.dims[d]

\* filter_iterator::retrieve
retrieve(a, f, mode, centered, pos, j) ==
    LET c == TapCoord(f, centered, pos, j)
    IN  IF Inside(a, c) THEN [valid |-> TRUE, val |-> ElementAt(a, c)]
        ELSE IF mode = "nearest" THEN [valid |-> FALSE, val |-> 0]
        ELSE IF mode = "constant" THEN [valid |-> TRUE, val |-> 0]
        ELSE [valid |-> TRUE,
              val |-> ElementAt(a, [d \in 1..Len(c) |-> fix_offset(mode, c[d], a.dims[d])])]

\* filter_iterator::operator[]
weight(f, j) == At(f.data, j * f.step)

-----------------------------------------------------------------------------
(* Convolution *)

\* T(cur): the sum cast back to the element type
Cast(x) == x

\* the j loop of convolve
RECURSIVE convolveTaps(_, _, _, _, _, _, _)
convolveTaps(a, f, mode, pos, N2, j, cur) ==
    IF j = N2 THEN cur
    ELSE LET r == retrieve(a, f, mode, TRUE, pos, j)
         IN  convolveTaps(a, f, mode, pos, N2, j + 1,
                          IF r.valid THEN cur + Mul(r.val, weight(f, j)) ELSE cur)

\* convolve dividing the sum by the number of taps
convolve_averaged(a, f, result, mode) ==
    [result EXCEPT !.data =
        [i \in 1..size(a) |->
            Cast(convolveTaps(a, f, mode, position(i - 1, a.dims), fsize(f), 0, 0)
                    \div fsize(f))]]

\* the result array after convolve
convolve(a, f, result, mode) ==
    [result EXCEPT !.data =
        [i \in 1..size(a) |->
            Cast(convolveTaps(a, f, mode, position(i - 1, a.dims), fsize(f), 0, 0))]]

-----------------------------------------------------------------------------
(* Rank filter *)

\* the tap values retrieved at a position, in tap order
RECURSIVE Neighbours(_, _, _, _, _, _)
Neighbours(a, f, mode, pos, N2, j) ==
    IF j = N2 THEN << >>
    ELSE LET r == retrieve(a, f, mode, TRUE, pos, j)
         IN  IF r.valid THEN << r.val >> \o Neighbours(a, f, mode, pos, N2, j + 1)
             ELSE Neighbours(a, f, mode, pos, N2, j + 1)

Range(s) == { s[i] : i \in 1..Len(s) }

\* s without its element at index m
Without(s, m) == [k \in 1..(Len(s) - 1) |-> IF k < m THEN s[k] ELSE s[k + 1]]

\* the orders in which the values of s can be arranged
RECURSIVE Arrangements(_)
Arrangements(s) ==
    IF s = << >> THEN { << >> }
    ELSE UNION { { << v >> \o p :
                     p \in Arrangements(Without(s, CHOOSE i \in 1..Len(s) : s[i] = v)) } :
                 v \in Range(s) }

RECURSIVE Sorted(_)
Sorted(s) ==
    IF s = << >> THEN << >>
    ELSE LET m == CHOOSE i \in 1..Len(s) : \A k \in 1..Len(s) : s[i] <= s[k]
         IN  << s[m] >> \o Sorted(Without(s, m))

\* std::nth_element(first, first + nth, first + n): every arrangement of the first n
\* slots with the nth smallest at nth, nothing larger before it and nothing smaller after
nth_element(buf, nth, n) ==
    IF nth >= n THEN { buf }
    ELSE LET s == Sorted(SubSeq(buf, 1, n))
         IN  { lo \o << s[nth + 1] >> \o hi \o SubSeq(buf, n + 1, Len(buf)) :
                 << lo, hi >> \in Arrangements(SubSeq(s, 1, nth))
                                  \X Arrangements(SubSeq(s, nth + 2, n)) }

\* int(n * rank / float(N2))
ScaledRank(n, rank, N2) == (n * rank) \div N2

\* the rank the buffer is partitioned at when n of the N2 taps are valid
currank(n, rank, N2) == IF n # N2 THEN ScaledRank(n, rank, N2) ELSE rank

\* the slot of neighbours copied to the result: *rpos = neighbours[rank]
written_slot(rank, cur) == rank

\* one position of rank_filter from the state << neighbours, res >>: the states after it
rankStep(a, f, mode, rank, N2, i, st) ==
    LET vals    == Neighbours(a, f, mode, position(i, a.dims), N2, 0)
        n       == Len(vals)
        filled  == [k \in 1..N2 |-> IF k <= n THEN vals[k] ELSE st[1][k]]
        cur     == currank(n, rank, N2)
    IN  { << nb, [st[2] EXCEPT ![i + 1] = nb[written_slot(rank, cur) + 1]] >> :
            nb \in nth_element(filled, cur, n) }

RECURSIVE rankLoop(_, _, _, _, _, _, _, _)
rankLoop(a, f, mode, rank, N2, N, i, sts) ==
    IF i = N THEN { st[2] : st \in sts }
    ELSE rankLoop(a, f, mode, rank, N2, N, i + 1,
                  UNION { rankStep(a, f, mode, rank, N2, i, st) : st \in sts })

\* what new T[N2] may hold
Junk == { Num(-3), Num(8) }

\* rank_filter clearing the result when the rank is out of range
rank_filter_clearing(res, a, Bc, rank, mode) ==
    LET N2 == fsize(Bc)
    IN  IF rank < 0 \/ rank >= N2 THEN { [res EXCEPT !.data = [k \in 1..Len(res.data) |-> 0]] }
        ELSE { [res EXCEPT !.data = d] :
                 d \in UNION { rankLoop(a, Bc, mode, rank, N2, size(res), 0,
                                        { << [k \in 1..N2 |-> g], res.data >> }) :
                               g \in Junk } }

\* the result arrays rank_filter can leave
rank_filter(res, a, Bc, rank, mode) ==
    LET N2 == fsize(Bc)
    IN  IF rank < 0 \/ rank >= N2 THEN { res }
        ELSE { [res EXCEPT !.data = d] :
                 d \in UNION { rankLoop(a, Bc, mode, rank, N2, size(res), 0,
                                        { << [k \in 1..N2 |-> g], res.data >> }) :
                               g \in Junk } }

-----------------------------------------------------------------------------
(* Template match *)

\* the j loop of template_match
RECURSIVE templateTaps(_, _, _, _, _, _, _, _)
templateTaps(a, t, mode, centered, pos, N2, j, diff2) ==
    IF j = N2 THEN diff2
    ELSE LET r     == retrieve(a, t, mode, centered, pos, j)
             tj    == weight(t, j)
             delta == IF r.val > tj THEN r.val - tj ELSE tj - r.val
         IN  templateTaps(a, t, mode, centered, pos, N2, j + 1,
                          IF r.valid THEN diff2 + Mul(delta, delta) ELSE diff2)

\* template_match with the template centred on the position
template_match_centered(res, a, t, mode) ==
    [res EXCEPT !.data =
        [i \in 1..size(res) |->
            templateTaps(a, t, mode, TRUE, position(i - 1, a.dims), fsize(t), 0, 0)]]

\* the filter iterator is built with its last argument false
template_match(res, a, t, mode) ==
    [res EXCEPT !.data =
        [i \in 1..size(res) |->
            templateTaps(a, t, mode, FALSE, position(i - 1, a.dims), fsize(t), 0, 0)]]

-----------------------------------------------------------------------------
(* Inputs *)

Seqs(n, V) == [1..n -> V]

\* 2-D arrays of at most MaxCells elements, one or two rows, dense
SmallArrays2D ==
    UNION { { MkArray("float64", << n0, n1 >>, 1, d) : d \in Seqs(n0 * n1, {Num(0), Num(1)}) } :
            << n0, n1 >> \in { s \in (1..2) \X (1..MaxCells) : s[1] * s[2] <= MaxCells } }

\* what the cells between the elements of a strided view hold
Gap == Num(7)

Spread(d) == [c \in 1..(2 * Len(d)) |-> IF c % 2 = 1 THEN d[(c + 1) \div 2] ELSE Gap]

\* 2-D views with element stride 2 (such as a[:, ::2])
StridedArrays2D ==
    UNION { { MkArray("float64", << n0, n1 >>, 2, Spread(d)) :
                d \in Seqs(n0 * n1, {Num(0), Num(1)}) } :
            << n0, n1 >> \in { s \in (1..2) \X (1..MaxStridedCells) :
                                  s[1] * s[2] <= MaxStridedCells } }

\* one long row holding a single 1
LongArrays2D ==
    { MkArray("float64", << 1, n1 >>, 1, [i \in 1..n1 |-> IF i = p THEN Num(1) ELSE Num(0)]) :
        << n1, p >> \in { s \in ((MaxLong - 1)..MaxLong) \X (1..MaxLong) : s[2] <= s[1] } }

\* 1-D arrays of at most MaxCells elements
SmallArrays1D ==
    UNION { { MkArray("float64", << n >>, 1, d) : d \in Seqs(n, {Num(1), Num(2)}) } :
            n \in 1..MaxCells }

\* the array of the worked example of the convolution
ExampleArray == MkArray("float64", << 5 >>, 1, << Num(1), Num(2), Num(3), Num(4), Num(5) >>)

\* constant 3 x 3 arrays
ConstArrays2D ==
    { MkArray("float64", << 3, 3 >>, 1, [i \in 1..9 |-> Num(c)]) : c \in {1, 2} }

\* 2 x 3 arrays whose rows differ and end in a nonzero element
OddRowArrays2D ==
    { MkArray("float64", << 2, 3 >>, 1, [i \in 1..6 |-> Num(d[i])]) :
        d \in { << 1, 0, 1, 0, 1, 2 >>, << 0, 1, 2, 1, 1, 1 >> } }

InputArrays ==
    SmallArrays2D \cup StridedArrays2D \cup SmallArrays1D \cup ConstArrays2D
        \cup OddRowArrays2D \cup {ExampleArray}

\* coefficient vectors handed to wavelet / iwavelet
CoeffArgs ==
    { MkArray("float32", << 2 >>, 1, D2),
      MkArray("float32", << 3 >>, 1, << Num(1), Num(2), Num(3) >>),
      MkArray("float64", << 2 >>, 1, D2),
      MkArray("float32", << 2 >>, 2, Spread(D2)) }

\* order codes handed to daubechies / idaubechies
Codes == (-1)..10

\* filters, structuring elements and templates
Flat1(w) == MkArray("float64", << Len(w) >>, 1, [i \in 1..Len(w) |-> Num(w[i])])

Flat2(n0, n1, w) == MkArray("float64", << n0, n1 >>, 1, [i \in 1..Len(w) |-> Num(w[i])])

Filters ==
    { Flat1(<< 1 >>), Flat1(<< 1, 1, 1 >>), Flat1(<< 1, 2, 3 >>),
      Flat2(1, 1, << 1 >>), Flat2(1, 3, << 1, 2, 3 >>),
      Flat2(3, 3, << 1, 1, 1, 1, 1, 1, 1, 1, 1 >>),
      MkArray("float32", << 1 >>, 1, << Num(1) >>) }

\* the structuring elements a caller hands to rank_filter: of the array's rank, with
\* three taps or no more taps than the array has elements
StructuringElements(a) ==
    { f \in { Flat1(<< 1, 1, 1 >>), Flat2(1, 3, << 1, 1, 1 >>),
              Flat2(3, 3, << 1, 1, 1, 1, 1, 1, 1, 1, 1 >>),
              MkArray("float32", << 1 >>, 1, << Num(1) >>),
              MkArray("float32", << 1, 1 >>, 1, << Num(1) >>) } :
        f.nd = a.nd /\ (size(f) <= 3 \/ size(f) <= size(a)) }

\* the templates a caller hands to template_match: of the array's rank
Templates(a) ==
    { f \in { MkArray(ty, dims, 1, d) :
                << ty, dims, d >> \in
                    ({"float64"} \X { << 2 >>, << 1, 2 >>, << 2, 1 >> } \X Seqs(2, {Num(1), Num(2)}))
                    \cup ({"float64", "float32"} \X { << 1 >>, << 1, 1 >> } \X Seqs(1, {Num(1)})) } :
        f.nd = a.nd }

\* what a preallocated output holds before the call
Stale == Num(9)

OutputLike(a) == MkArray(a.dtype, a.dims, 1, [i \in 1..size(a) |-> Stale])

\* an output of another shape, a strided one, one of another dtype
WrongShape(a) ==
    LET dims == [a.dims EXCEPT ![Len(a.dims)] = @ + 1]
    IN  MkArray(a.dtype, dims, 1, [i \in 1..Product(dims) |-> Stale])

NonDense(a) == MkArray(a.dtype, a.dims, 2, [i \in 1..(2 * size(a)) |-> Stale])

WrongType(a) == MkArray("float32", a.dims, 1, [i \in 1..size(a) |-> Stale])

\* the rank arguments tried with a structuring element of N2 elements
RankArgs(N2) == { -1, 0, N2 \div 2, N2 - 1, N2 }

-----------------------------------------------------------------------------
(* Entry points *)

\* an in-place transform may follow a successful in-place transform, once
Transforms == {"haar", "ihaar", "wavelet", "iwavelet", "daubechies", "idaubechies"}

CanTransform ==
    \/ calls = << >>
    \/ Len(calls) = 1 /\ ret = "ok" /\ calls[1].op \in Transforms

Return(op, arg, r, newArray, newOutput) ==
    /\ calls' = Append(calls, [op |-> op, arg |-> arg])
    /\ ret' = r
    /\ prev' = array
    /\ array' = newArray
    /\ output' = newOutput
    /\ UNCHANGED << array0, iter >>

Error(op, arg) == Return(op, arg, "error", array, output)

py_haar ==
    /\ CanTransform
    /\ IF ~IsArray(array) \/ array.nd # 2
       THEN Error("haar", None)
       ELSE Return("haar", None, "ok", haar(array), output)

py_ihaar ==
    /\ CanTransform
    /\ IF ~IsArray(array) \/ array.nd # 2
       THEN Error("ihaar", None)
       ELSE Return("ihaar", None, "ok", ihaar(array), output)

py_wavelet ==
    /\ CanTransform
    /\ \E coeffs \in CoeffArgs :
          IF \/ ~IsArray(array) \/ ~IsArray(coeffs)
             \/ array.nd # 2
             \/ coeffs.dtype # "float32"
             \/ ~ISCARRAY(coeffs)
          THEN Error("wavelet", coeffs)
          ELSE Return("wavelet", coeffs, "ok",
                      wavelet(array, coeffs.data, dim(coeffs, 0)), output)

py_iwavelet ==
    /\ CanTransform
    /\ \E coeffs \in CoeffArgs :
          IF \/ ~IsArray(array) \/ ~IsArray(coeffs)
             \/ array.nd # 2
             \/ coeffs.dtype # "float32"
             \/ ~ISCARRAY(coeffs)
          THEN Error("iwavelet", coeffs)
          ELSE Return("iwavelet", coeffs, "ok",
                      iwavelet(array, coeffs.data, dim(coeffs, 0)), output)

py_daubechies ==
    /\ CanTransform
    /\ \E code \in Codes :
          IF ~IsArray(array) \/ array.nd # 2
          THEN Error("daubechies", code)
          ELSE LET coeffs  == dcoeffs(code)
                   ncoeffs == 2 * (code + 1)
               IN  IF coeffs = << >>
                   THEN Error("daubechies", code)
                   ELSE Return("daubechies", code, "ok",
                               wavelet(array, coeffs, ncoeffs), output)

py_idaubechies ==
    /\ CanTransform
    /\ \E code \in Codes :
          IF ~IsArray(array) \/ array.nd # 2
          THEN Error("idaubechies", code)
          ELSE LET coeffs  == dcoeffs(code)
                   ncoeffs == 2 * (code + 1)
               IN  IF coeffs = << >>
                   THEN Error("idaubechies", code)
                   ELSE Return("idaubechies", code, "ok",
                               iwavelet(array, coeffs, ncoeffs), output)

\* a filter call is made on the array as constructed
CanFilter == calls = << >>

py_convolve ==
    /\ CanFilter
    /\ \E filter \in Filters, mode \in Modes,
          out \in {None, OutputLike(array), WrongShape(array), NonDense(array), WrongType(array)} :
          LET arg == [filter |-> filter, output |-> out, mode |-> mode]
          IN  IF \/ ~IsArray(array) \/ ~IsArray(filter)
                 \/ array.dtype # filter.dtype
                 \/ array.nd # filter.nd
              THEN Return("convolve", arg, "error", array, out)
              ELSE IF out = None
              THEN \* PyArray_EMPTY: a fresh array of the shape and type of array
                   Return("convolve", arg, "ok", array,
                          convolve(array, filter, OutputLike(array), mode))
              ELSE IF \/ ~IsArray(out)
                      \/ out.nd # array.nd
                      \/ out.dtype # array.dtype
                      \/ ~ISCARRAY(out)
                      \/ \E d \in 1..array.nd : array.dims[d] # out.dims[d]
              THEN Return("convolve", arg, "error", array, out)
              ELSE Return("convolve", arg, "ok", array, convolve(array, filter, out, mode))

py_rank_filter ==
    /\ CanFilter
    /\ \E Bc \in StructuringElements(array), mode \in Modes,
          out \in {OutputLike(array), NonDense(array), WrongType(array)} :
       \E rank \in RankArgs(fsize(Bc)) :
          LET arg == [filter |-> Bc, output |-> out, mode |-> mode, rank |-> rank]
          IN  IF \/ ~IsArray(array) \/ ~IsArray(Bc) \/ ~IsArray(out)
                 \/ array.dtype # Bc.dtype
                 \/ array.dtype # out.dtype
                 \/ ~ISCARRAY(out)
              THEN Return("rank_filter", arg, "error", array, out)
              ELSE \E res \in rank_filter(out, array, Bc, rank, mode) :
                      Return("rank_filter", arg, "ok", array, res)

py_template_match ==
    /\ CanFilter
    /\ \E template \in Templates(array), mode \in Modes,
          out \in {OutputLike(array), NonDense(array), WrongType(array)} :
          LET arg == [filter |-> template, output |-> out, mode |-> mode]
          IN  IF \/ ~IsArray(array) \/ ~IsArray(out) \/ ~IsArray(template)
                 \/ array.dtype # out.dtype
                 \/ template.dtype # array.dtype
                 \/ ~ISCARRAY(out)
              THEN Return("template_match", arg, "error", array, out)
              ELSE Return("template_match", arg, "ok", array,
                          template_match(out, array, template, mode))

-----------------------------------------------------------------------------
(* Specifications *)

\* no iterator under test
NoIter == [count |-> -1]

InitWith(S) ==
    /\ array \in S
    /\ array0 = array
    /\ prev = array
    /\ output = None
    /\ ret = "none"
    /\ calls = << >>
    /\ iter = NoIter

Init == InitWith(InputArrays)

Next ==
    \/ py_haar
    \/ py_ihaar
    \/ py_wavelet
    \/ py_iwavelet
    \/ py_daubechies
    \/ py_idaubechies
    \/ py_convolve
    \/ py_rank_filter
    \/ py_template_match

Spec == Init /\ [][Next]_vars

\* the Daubechies transforms on long rows and on strided views
InitLong == InitWith(LongArrays2D \cup StridedArrays2D)

NextLong ==
    \/ py_daubechies
    \/ py_idaubechies

SpecLong == InitLong /\ [][NextLong]_vars

\* the shapes of at most MaxAxes axes of 1..MaxAxisLen elements
Shapes == UNION { [1..n -> 1..MaxAxisLen] : n \in 1..MaxAxes }

\* the element strides of a dense row-major array of shape dims
Contiguous(dims) == [d \in 1..Len(dims) |-> Product(SubSeq(dims, d + 1, Len(dims)))]

\* the element strides a view of shape dims can have: dense; every other element of a
\* dense array; a transposed (column-major) array; the last axis walked backwards;
\* rows followed by one element of padding
Layouts(dims) ==
    LET nd == Len(dims)
        c  == Contiguous(dims)
    IN  { c,
          [d \in 1..nd |-> 2 * c[d]],
          [d \in 1..nd |-> Product(SubSeq(dims, 1, d - 1))],
          [d \in 1..nd |-> IF d = nd THEN -1 ELSE c[d]],
          [d \in 1..nd |-> IF d = nd THEN 1
                           ELSE Product(SubSeq(dims, d + 1, nd - 1)) * (dims[nd] + 1)] }

\* array.begin() on a view
InitIter ==
    /\ array = None
    /\ array0 = None
    /\ prev = None
    /\ output = None
    /\ ret = "none"
    /\ calls = << >>
    /\ \E dims \in Shapes : \E strides \in Layouts(dims) :
          iter = [ dims |-> dims, strides |-> strides,
                   it |-> iterator_base(dims, strides), count |-> 0 ]

\* ++iter, up to the end of the array
Increment ==
    /\ iter.count >= 0
    /\ iter.count < Product(iter.dims)
    /\ iter' = [iter EXCEPT !.it = operator_inc(@), !.count = @ + 1]
    /\ UNCHANGED << array, output, ret, calls, array0, prev >>

NextIter == Increment

SpecIter == InitIter /\ [][NextIter]_vars

-----------------------------------------------------------------------------
(* Properties *)

LastCall == calls[Len(calls)]

\* the last call was op and returned an array
Did(op) == calls # << >> /\ LastCall.op = op /\ ret = "ok"

\* the calls made are exactly the operations ops, and the last returned an array
DidAll(ops) ==
    /\ Len(calls) = Len(ops)
    /\ \A i \in 1..Len(ops) : calls[i].op = ops[i]
    /\ ret = "ok"

\* element (y, x) of a 2-D array
Elem(a, y, x) == At(a.data, (y * dim(a, 1) + x) * a.step)

EvenRows(a) == a.nd = 2 /\ dim(a, 1) % 2 = 0

Near(u, v) == Abs(u - v) <= Tol

\* C1: for a 2-D array of even row length, haar followed by ihaar, and ihaar followed
\* by haar, leave every element of the array as it was.
Thm_C1 ==
    (EvenRows(array0) /\ (DidAll(<< "haar", "ihaar" >>) \/ DidAll(<< "ihaar", "haar" >>)))
        => array = array0

Witness_C1 ==
    /\ EvenRows(array0)
    /\ DidAll(<< "ihaar", "haar" >>)
    /\ dim(array0, 0) = 2
    /\ prev # array0
    /\ array = array0

\* the round trip idaubechies(A, k) then daubechies(., k)
RoundTrip(k) ==
    /\ Len(calls) = 2
    /\ calls[1] = [op |-> "idaubechies", arg |-> k]
    /\ calls[2] = [op |-> "daubechies", arg |-> k]
    /\ ret = "ok"

\* the forward taps 2r .. 2r+n-1 of output r lie inside a row of N1 elements
TapsInside(r, n, N1) == 2 * r + n <= N1

\* C2 as stated: daubechies(idaubechies(A, k), k) equals A at every element, the ends
\* of the rows included (equality taken up to the rounding tolerance).
Orig_C2 ==
    \A k \in 0..9 :
        RoundTrip(k) =>
            \A y \in 0..(dim(array, 0) - 1), x \in 0..(dim(array, 1) - 1) :
                Near(Elem(array, y, x), Elem(array0, y, x))

\* C2 amended: for an array whose rows are of even length or contiguous (element
\* stride 1), daubechies(idaubechies(A, k), k) equals A, up to rounding, at the low
\* element r and the high element N1/2 + r of every row, for every r whose forward
\* taps 2r .. 2r+n-1 (n = 2(k+1)) all lie inside the row.
Thm_C2 ==
    \A k \in 0..9 :
        (RoundTrip(k) /\ (dim(array, 1) % 2 = 0 \/ array.step = 1)) =>
            \A y \in 0..(dim(array, 0) - 1), r \in 0..(dim(array, 1) \div 2) :
                TapsInside(r, 2 * (k + 1), dim(array, 1)) =>
                    /\ Near(Elem(array, y, r), Elem(array0, y, r))
                    /\ Near(Elem(array, y, (dim(array, 1) \div 2) + r),
                            Elem(array0, y, (dim(array, 1) \div 2) + r))

Witness_C2 ==
    /\ RoundTrip(9)
    /\ prev # array0
    /\ array # array0
    /\ TapsInside(1, 20, dim(array, 1))
    /\ Elem(array0, 0, 1) = Num(1)
    /\ Near(Elem(array, 0, 1), Num(1))

\* sum of f(i) for i in lo..hi
RECURSIVE SumOver(_, _, _)
SumOver(f(_), lo, hi) == IF lo > hi THEN 0 ELSE f(lo) + SumOver(f, lo + 1, hi)

\* sample p of row y of a 2-D array, zero outside the row
Sample(a, y, p) == IF p < 0 \/ p >= dim(a, 1) THEN 0 ELSE Elem(a, y, p)

\* the low and high values of the forward step, the high sign being s0 at ci = 0
LowOf(a, y, x, coeffs, n) ==
    LET term(ci) == Mul(coeffs[n - ci], Sample(a, y, 2 * x + ci))
    IN  SumOver(term, 0, n - 1)

HighOf(a, y, x, coeffs, n, s0) ==
    LET term(ci) == Mul((IF ci % 2 = 0 THEN s0 ELSE -s0) * coeffs[ci + 1],
                        Sample(a, y, 2 * x + ci))
    IN  SumOver(term, 0, n - 1)

\* the array holds, in every row, the low values of before in its first half and the
\* high values in its second half
ForwardStep(before, after, coeffs, n, s0) ==
    \A y \in 0..(dim(before, 0) - 1), x \in 0..((dim(before, 1) \div 2) - 1) :
        /\ Elem(after, y, x) = LowOf(before, y, x, coeffs, n)
        /\ Elem(after, y, (dim(before, 1) \div 2) + x) = HighOf(before, y, x, coeffs, n, s0)

\* the coefficients and their number used by the last call, a wavelet or a daubechies
CoeffsUsed == IF LastCall.op = "wavelet" THEN LastCall.arg.data ELSE dcoeffs(LastCall.arg)

NCoeffsUsed == IF LastCall.op = "wavelet" THEN dim(LastCall.arg, 0) ELSE 2 * (LastCall.arg + 1)

Thm_C8 ==
    /\ (Did("haar") /\ EvenRows(prev)) => array = wavelet(prev, D2, 2)
    /\ (Did("ihaar") /\ EvenRows(prev)) => array = iwavelet(prev, D2, 2)

Witness_C8 ==
    /\ Did("ihaar")
    /\ EvenRows(prev)
    /\ array # prev
    /\ array = iwavelet(prev, D2, 2)

\* the value tap j of filter f reaches from position pos of a, centred or anchored
TapInside(a, f, centered, pos, j) == Inside(a, TapCoord(f, centered, pos, j))

TapValue(a, f, centered, pos, j) == ElementAt(a, TapCoord(f, centered, pos, j))

\* the tap values inside the array at position pos, in ascending order
ValidSorted(a, f, pos) ==
    LET taps == { j \in 0..(fsize(f) - 1) : TapInside(a, f, TRUE, pos, j) }
        RECURSIVE asc(_)
        asc(J) == IF J = {} THEN << >>
                  ELSE LET j == CHOOSE j \in J :
                                   \A k \in J : TapValue(a, f, TRUE, pos, j) <= TapValue(a, f, TRUE, pos, k)
                       IN  << TapValue(a, f, TRUE, pos, j) >> \o asc(J \ {j})
    IN  asc(taps)

ValidRank == LastCall.arg.rank >= 0 /\ LastCall.arg.rank < fsize(LastCall.arg.filter)

\* C3 as stated: rank_filter with a valid rank writes at every position the element
\* of scaled rank floor(n * rank / N2) among the n valid tap values of the position.
Orig_C3 ==
    (Did("rank_filter") /\ ValidRank /\ LastCall.arg.mode = "nearest") =>
        \A i \in 0..(size(array) - 1) :
            LET v == ValidSorted(array, LastCall.arg.filter, position(i, array.dims))
            IN  v # << >> =>
                    output.data[i + 1]
                        = v[((Len(v) * LastCall.arg.rank) \div fsize(LastCall.arg.filter)) + 1]

\* the sum over the taps inside the array of weight times value
WeightedSum(a, f, pos) ==
    LET term(j) == IF TapInside(a, f, TRUE, pos, j)
                   THEN Mul(weight(f, j), TapValue(a, f, TRUE, pos, j))
                   ELSE 0
    IN  SumOver(term, 0, fsize(f) - 1)

\* C4: in nearest/ignore mode convolve writes at every position the sum of
\* weight * value over exactly the taps that lie inside the array, undivided; for
\* A = [1,2,3,4,5] and the centred F = [1,1,1] the output is [3,6,9,12,9].
Thm_C4 ==
    (Did("convolve") /\ LastCall.arg.mode = "nearest") =>
        /\ \A i \in 0..(size(array) - 1) :
              output.data[i + 1] = WeightedSum(array, LastCall.arg.filter, position(i, array.dims))
        /\ (array = ExampleArray /\ LastCall.arg.filter = Flat1(<< 1, 1, 1 >>)) =>
              output.data = << Num(3), Num(6), Num(9), Num(12), Num(9) >>

Witness_C4 ==
    /\ Did("convolve")
    /\ LastCall.arg.mode = "nearest"
    /\ array = ExampleArray
    /\ LastCall.arg.filter = Flat1(<< 1, 1, 1 >>)
    /\ output.data = << Num(3), Num(6), Num(9), Num(12), Num(9) >>

\* the precondition of the last call, as the entry point's table states it, fails
PreconditionFails ==
    LET op  == LastCall.op
        arg == LastCall.arg
    IN  CASE op = "convolve" ->
                \/ prev.dtype # arg.filter.dtype
                \/ prev.nd # arg.filter.nd
                \/ /\ arg.output # None
                   /\ \/ arg.output.nd # prev.nd
                      \/ arg.output.dtype # prev.dtype
                      \/ arg.output.dims # prev.dims
                      \/ arg.output.step # 1
          [] op \in {"haar", "ihaar"} -> prev.nd # 2
          [] op \in {"wavelet", "iwavelet"} ->
                prev.nd # 2 \/ arg.dtype # "float32" \/ arg.step # 1
          [] op \in {"daubechies", "idaubechies"} ->
                prev.nd # 2 \/ arg < 0 \/ arg > 9
          [] OTHER -> FALSE

\* the output array the last call was handed (none for the wavelets)
OutputGiven == IF LastCall.op \in Transforms THEN None ELSE LastCall.arg.output

\* C5: when the precondition check of convolve, haar, ihaar, wavelet, iwavelet,
\* daubechies or idaubechies fails, the call returns an error and neither the
\* input array nor the output array is modified.
Thm_C5 ==
    (calls # << >> /\ PreconditionFails) =>
        /\ ret = "error"
        /\ array = prev
        /\ output = OutputGiven

Witness_C5 ==
    /\ Len(calls) = 2
    /\ LastCall = [op |-> "idaubechies", arg |-> 10]
    /\ prev.nd = 2
    /\ prev # array0
    /\ ret = "error"
    /\ array = prev

\* C6: rank_filter called with a rank below 0 or not below N2 writes nothing to the
\* output, leaves the input unchanged and returns the output without an error.
Thm_C6 ==
    (/\ calls # << >>
     /\ LastCall.op = "rank_filter"
     /\ LastCall.arg.filter.dtype = prev.dtype
     /\ LastCall.arg.output.dtype = prev.dtype
     /\ LastCall.arg.output.step = 1
     /\ ~ValidRank) =>
        /\ ret = "ok"
        /\ output = LastCall.arg.output
        /\ array = prev

Witness_C6 ==
    /\ Did("rank_filter")
    /\ LastCall.arg.rank = fsize(LastCall.arg.filter)
    /\ fsize(LastCall.arg.filter) = 9
    /\ output = OutputLike(array)

\* C9 as stated: rank_filter with rank N2/2 and a flat structuring element of an odd
\* number of elements, on an array whose elements all equal c, writes c everywhere.
Orig_C9 ==
    (/\ Did("rank_filter")
     /\ LastCall.arg.mode = "nearest"
     /\ fsize(LastCall.arg.filter) % 2 = 1
     /\ LastCall.arg.rank = fsize(LastCall.arg.filter) \div 2
     /\ \A j \in 1..Len(Elements(array)) : Elements(array)[j] = Elements(array)[1]) =>
        \A i \in 1..size(array) : output.data[i] = Elements(array)[1]

\* C10: template_match writes 0 at every position where the template, anchored with
\* its first element at the position, lies inside the array and equals what it
\* covers, and a nonzero value where it lies inside and some covered element differs.
Thm_C10 ==
    Did("template_match") =>
        \A i \in 0..(size(array) - 1) :
            LET pos == position(i, array.dims)
                t   == LastCall.arg.filter
                J   == 0..(fsize(t) - 1)
            IN  (\A j \in J : Inside(array, [d \in 1..array.nd |-> pos[d] + position(j, t.dims)[d]])) =>
                    (output.data[i + 1] = 0 <=>
                        \A j \in J :
                            ElementAt(array, [d \in 1..array.nd |-> pos[d] + position(j, t.dims)[d]])
                                = At(t.data, j))

Witness_C10 ==
    /\ Did("template_match")
    /\ array.dims = << 2, 2 >>
    /\ LastCall.arg.filter.dims = << 2, 1 >>
    /\ output.data[1] # 0
    /\ output.data[2] = 0
    /\ Elements(array)[2] = At(LastCall.arg.filter.data, 0)
    /\ Elements(array)[4] = At(LastCall.arg.filter.data, 1)

\* the element offset of a position under the strides of a view
Offset(pos, strides) ==
    LET term(d) == pos[d] * strides[d]
    IN  SumOver(term, 1, Len(pos))

\* C11: after k increments from begin() (0 <= k < size) position() is the k-th index
\* tuple in row-major order and the data pointer is at the sum over the axes of
\* position[i] * stride[i] from the base, whatever the strides; after size increments
\* the position is all zeros again.
Thm_C11 ==
    iter.count >= 0 =>
        LET k == iter.count
            N == Product(iter.dims)
        IN  /\ k < N =>
                  /\ iterator_position(iter.it) = position(k, iter.dims)
                  /\ iter.it.data_ = Offset(position(k, iter.dims), iter.strides)
            /\ k = N => iterator_position(iter.it) = [d \in 1..Len(iter.dims) |-> 0]

Witness_C11 ==
    /\ iter.count = 7
    /\ iter.dims = << 2, 3, 2 >>
    /\ iter.strides = << 12, 4, 2 >>
    /\ iterator_position(iter.it) = << 1, 0, 1 >>
    /\ iter.it.data_ = 14

\* element p of the low half (from = 0) or of the high half (from = N1/2) of row y,
\* zero when p is not an index of the half
HalfSample(a, y, from, p) ==
    IF p < 0 \/ p >= dim(a, 1) \div 2 THEN 0 ELSE Elem(a, y, from + p)

\* the inverse step at x with every odd-xmap2 tap reading element floor(xmap2 / 2) of
\* its half (\div rounds down)
InverseFloor(a, y, x, coeffs, n) ==
    LET xmap2(ci) == x + ci - n + 2
        lterm(ci) == IF xmap2(ci) % 2 = 0 THEN 0
                     ELSE Mul(coeffs[ci + 1], HalfSample(a, y, 0, xmap2(ci) \div 2))
        hterm(ci) == IF xmap2(ci) % 2 = 0 THEN 0
                     ELSE Mul((IF ci % 2 = 0 THEN 1 ELSE -1) * coeffs[n - ci],
                              HalfSample(a, y, dim(a, 1) \div 2, xmap2(ci) \div 2))
    IN  Half(SumOver(lterm, 0, n - 1) + SumOver(hterm, 0, n - 1))

\* the coefficients and their number used by the last call, an iwavelet or an idaubechies
InverseCoeffsUsed ==
    IF LastCall.op = "iwavelet" THEN LastCall.arg.data ELSE dcoeffs(LastCall.arg)

InverseNCoeffsUsed ==
    IF LastCall.op = "iwavelet" THEN dim(LastCall.arg, 0) ELSE 2 * (LastCall.arg + 1)

\* C12 as stated: in the inverse step every tap with odd xmap2 = x+ci-ncoeffs+2 reads
\* element floor(xmap2/2) of the low and of the high half when that is an index of
\* the half and contributes zero otherwise, so a tap with negative xmap2 reads no
\* element of the row (rows of even length).
Orig_C12 ==
    ((Did("iwavelet") \/ Did("idaubechies")) /\ EvenRows(prev)) =>
        \A y \in 0..(dim(prev, 0) - 1), x \in 0..(dim(prev, 1) - 1) :
            Elem(array, y, x) = InverseFloor(prev, y, x, InverseCoeffsUsed, InverseNCoeffsUsed)

\* the valid tap values rank_filter collects at position i of the last call
TapsAt(i) ==
    Neighbours(array, LastCall.arg.filter, LastCall.arg.mode,
               position(i, array.dims), fsize(LastCall.arg.filter), 0)

\* C13 as stated: at every position of a rank_filter call with a valid rank the slot
\* of the scratch buffer that is copied to the output lies below n, the number of
\* valid tap values stored for the position, so the output is one of these values.
Orig_C13 ==
    (Did("rank_filter") /\ ValidRank) =>
        \A i \in 0..(size(array) - 1) :
            LET n   == Len(TapsAt(i))
                cur == currank(n, LastCall.arg.rank, fsize(LastCall.arg.filter))
            IN  /\ written_slot(LastCall.arg.rank, cur) < n
                /\ output.data[i + 1] \in Range(TapsAt(i))

OddRows(a) == a.nd = 2 /\ dim(a, 1) % 2 = 1

\* the coefficients and their number used by the last call, a forward transform
ForwardCoeffsUsed == IF LastCall.op = "haar" THEN D2 ELSE CoeffsUsed

ForwardNCoeffsUsed == IF LastCall.op = "haar" THEN 2 ELSE NCoeffsUsed

\* C14: on a 2-D array of odd row length N1 the forward haar and the forward wavelet
\* store the low values in elements 0..N1/2-1 and the high values in elements
\* N1/2..2*(N1/2)-1 of each row and set the last element of every row to zero; no
\* row receives a value computed from another row.
Thm_C14 ==
    ((Did("haar") \/ Did("wavelet") \/ Did("daubechies")) /\ OddRows(prev)) =>
        /\ ForwardStep(prev, array, ForwardCoeffsUsed, ForwardNCoeffsUsed, -1)
        /\ \A y \in 0..(dim(prev, 0) - 1) : Elem(array, y, dim(prev, 1) - 1) = 0

Witness_C14 ==
    /\ Did("haar")
    /\ Len(calls) = 1
    /\ prev.dims = << 2, 3 >>
    /\ Elem(prev, 0, 2) # 0
    /\ Elem(prev, 1, 2) # 0
    /\ Elem(array, 0, 0) # Elem(array, 1, 0)
    /\ Elem(array, 0, 2) = 0
    /\ Elem(array, 1, 2) = 0

====
